---- MODULE Spec2Model ----
(***************************************************************************)
(* Room-scoped WebSocket relay (src/server.js): the registry activeRooms,  *)
(* the connection handler with its message / close / error listeners, the  *)
(* room-ending endpoint and the health endpoint.                           *)
(*                                                                         *)
(* A JavaScript Set iterates in insertion order, so a room's member set is *)
(* a duplicate-free sequence.  Node runs every handler to completion, so   *)
(* every handler is one atomic action.  ws.send is a call into the ws      *)
(* library: whether it throws is an input of the step (the set fail).      *)
(***************************************************************************)
EXTENDS Integers, Sequences, FiniteSets, TLC

\* Bounds of the model.
MaxConns == 3
NumRooms == 2
\* SpecFifo: messages handled, all senders together
MaxMsgs == 3

Conns == 1..MaxConns
NoConn == 0

\* Room identifiers are strings; a string is a sequence of characters.
RoomIds == {<<ToString(k)>> : k \in 1..NumRooms}
EmptyId == << >>
\* req.url pathnames: "/" and "/<id>".
Pathnames == {<<"/">>} \cup {<<"/">> \o id : id \in RoomIds}

\* ws.close(1008, "Room ID required")
PolicyViolation == 1008
NoCode == 0

VARIABLES
    activeRooms,  \* Map roomId -> Set of ws (insertion-ordered)
    readyState,   \* ws.readyState of every connection
    roomId,       \* the roomId captured by the handlers of a connection
    listeners,    \* connections whose message/close/error listeners are registered
    closeCode,    \* code the server passed to ws.close, NoCode if it never did
    closeRuns,    \* how many times the close listener of a connection has run
    evicted,      \* connections not yet closed that were members of a room when it was ended
    last,         \* what the most recent handler did
    nextSeq,      \* SpecFifo: how many messages of each sender were handled
    inbox         \* SpecFifo: what was sent to each connection, in send order

vars == <<activeRooms, readyState, roomId, listeners, closeCode, closeRuns,
          evicted, last, nextSeq, inbox>>

----------------------------------------------------------------------------
\* Set and Map primitives of JavaScript.

Range(s) == {s[i] : i \in 1..Len(s)}

\* Set.prototype.add
SetAdd(s, c) == IF c \in Range(s) THEN s ELSE Append(s, c)

\* SetDelete that removes nothing.
SetDeleteNothing(s, c) == s

\* Set.prototype.delete
SetDelete(s, c) == SelectSeq(s, LAMBDA x : x # c)

\* Map.prototype.has
MapHas(reg, r) == r \in DOMAIN reg

\* Map.prototype.set
MapSet(reg, r, v) == [k \in DOMAIN reg \cup {r} |-> IF k = r THEN v ELSE reg[k]]

\* Map.prototype.delete
MapDelete(reg, r) == [k \in DOMAIN reg \ {r} |-> reg[k]]

EmptyMap == [k \in {} |-> << >>]

\* url.pathname.slice(1)
Slice1(pathname) == SubSeq(pathname, 2, Len(pathname))

\* RoomCount as the number of tracked connections instead of rooms.
RECURSIVE SumOfSizes(_, _)
SumOfSizes(reg, keys) ==
    IF keys = {} THEN 0
    ELSE LET k == CHOOSE x \in keys : TRUE
         IN  Len(reg[k]) + SumOfSizes(reg, keys \ {k})
RoomCountOfConnections(reg) == SumOfSizes(reg, DOMAIN reg)

\* activeRooms.size, as the health endpoint reports it
RoomCount(reg) == Cardinality(DOMAIN reg)

\* ws.readyState === WebSocket.OPEN
IsOpen(c) == readyState[c] = "OPEN"
OpenConns == {c \in Conns : IsOpen(c)}

----------------------------------------------------------------------------
\* The registry steps of the handlers.

\* Bind that adds the connection to the set of every room there is, and to r.
BindEveryRoom(reg, r, ws) ==
    LET reg1 == IF ~MapHas(reg, r) THEN MapSet(reg, r, << >>) ELSE reg
    IN  [k \in DOMAIN reg1 |-> SetAdd(reg1[k], ws)]

\* connection handler: create the room if absent, add the connection
Bind(reg, r, ws) ==
    LET reg1 == IF ~MapHas(reg, r) THEN MapSet(reg, r, << >>) ELSE reg
    IN  MapSet(reg1, r, SetAdd(reg1[r], ws))

\* Unbind without the size === 0 branch: the emptied room stays in the Map.
UnbindKeepsEmptyRoom(reg, r, ws) ==
    IF MapHas(reg, r) THEN MapSet(reg, r, SetDelete(reg[r], ws)) ELSE reg

\* Unbind without roomConnections.delete(ws): only an empty room is dropped.
UnbindKeepsMember(reg, r, ws) ==
    IF MapHas(reg, r) /\ Len(reg[r]) = 0 THEN MapDelete(reg, r) ELSE reg

\* Unbind as activeRooms.delete(roomId) whenever the identifier has an
\* entry, whoever its members are.
UnbindDropsRoom(reg, r, ws) ==
    IF MapHas(reg, r) THEN MapDelete(reg, r) ELSE reg

\* close listener: remove the connection, delete the room once it is empty
Unbind(reg, r, ws) ==
    IF MapHas(reg, r)
    THEN LET rest == SetDelete(reg[r], ws)
         IN  IF Len(rest) = 0 THEN MapDelete(reg, r) ELSE MapSet(reg, r, rest)
    ELSE reg

\* end endpoint: activeRooms.get(roomId) || new Set()
RoomConnections(reg, r) == IF MapHas(reg, r) THEN reg[r] ELSE << >>

NoStep ==
    [kind |-> "init", conn |-> NoConn, room |-> EmptyId, found |-> FALSE,
     members |-> << >>, delivered |-> {}, failed |-> {}, threw |-> FALSE,
     sentCount |-> 0, closedCount |-> 0, totalClients |-> 0, roomCount |-> 0]

Init ==
    /\ activeRooms = EmptyMap
    /\ readyState = [c \in Conns |-> "CONNECTING"]
    /\ roomId = [c \in Conns |-> EmptyId]
    /\ listeners = {}
    /\ closeCode = [c \in Conns |-> NoCode]
    /\ closeRuns = [c \in Conns |-> 0]
    /\ evicted = {}
    /\ last = NoStep
    /\ nextSeq = [c \in Conns |-> 0]
    /\ inbox = [c \in Conns |-> << >>]

\* Accept without the return after ws.close(1008, ...): the rejected
\* connection goes on to be bound under the empty identifier.
AcceptWithoutReturn(ws, pathname) ==
    /\ readyState[ws] = "CONNECTING"
    /\ \A d \in Conns : d < ws => readyState[d] # "CONNECTING"
    /\ LET r == Slice1(pathname)
       IN  /\ readyState' = [readyState EXCEPT
                                ![ws] = IF Len(r) = 0 THEN "CLOSING" ELSE "OPEN"]
           /\ closeCode' = [closeCode EXCEPT
                               ![ws] = IF Len(r) = 0 THEN PolicyViolation ELSE @]
           /\ activeRooms' = Bind(activeRooms, r, ws)
           /\ roomId' = [roomId EXCEPT ![ws] = r]
           /\ listeners' = listeners \cup {ws}
           /\ last' = [NoStep EXCEPT
                          !.kind = IF Len(r) = 0 THEN "reject" ELSE "accept",
                          !.conn = ws, !.room = r]
    /\ UNCHANGED <<closeRuns, evicted>>
    /\ UNCHANGED <<nextSeq, inbox>>

\* wss.on("connection"): connections are fresh objects, numbered in the
\* order they are accepted.
Accept(ws, pathname) ==
    /\ readyState[ws] = "CONNECTING"
    /\ \A d \in Conns : d < ws => readyState[d] # "CONNECTING"
    /\ LET r == Slice1(pathname)
       IN  IF Len(r) = 0
           THEN /\ readyState' = [readyState EXCEPT ![ws] = "CLOSING"]
                /\ closeCode' = [closeCode EXCEPT ![ws] = PolicyViolation]
                /\ last' = [NoStep EXCEPT !.kind = "reject", !.conn = ws]
                /\ UNCHANGED <<activeRooms, roomId, listeners>>
           ELSE /\ readyState' = [readyState EXCEPT ![ws] = "OPEN"]
                /\ activeRooms' = Bind(activeRooms, r, ws)
                /\ roomId' = [roomId EXCEPT ![ws] = r]
                /\ listeners' = listeners \cup {ws}
                /\ last' = [NoStep EXCEPT !.kind = "accept", !.conn = ws, !.room = r]
                /\ UNCHANGED closeCode
    /\ UNCHANGED <<closeRuns, evicted>>
    /\ UNCHANGED <<nextSeq, inbox>>

\* roomConnections.forEach of the message listener: send to every member other
\* than the sender whose transport is open.  There is no try around
\* otherWs.send, so a send that throws ends the forEach and leaves the listener
\* (threw); what the host then does with the exception is not modelled.
RECURSIVE ForEachForward(_, _, _, _)
ForEachForward(conns, ws, open, fail) ==
    IF Len(conns) = 0
    THEN [delivered |-> {}, failed |-> {}, threw |-> FALSE]
    ELSE LET otherWs == Head(conns)
         IN  IF otherWs # ws /\ otherWs \in open
             THEN IF otherWs \in fail
                  THEN [delivered |-> {}, failed |-> {otherWs}, threw |-> TRUE]
                  ELSE LET rest == ForEachForward(Tail(conns), ws, open, fail)
                       IN  [rest EXCEPT !.delivered = @ \cup {otherWs}]
             ELSE ForEachForward(Tail(conns), ws, open, fail)

\* MessageRoom as a broadcast to the clients of every room, whatever r is.
RECURSIVE AllClients(_, _)
AllClients(reg, k) ==
    IF k > MaxConns THEN << >>
    ELSE (IF \E q \in DOMAIN reg : k \in Range(reg[q]) THEN <<k>> ELSE << >>)
         \o AllClients(reg, k + 1)
MessageRoomEveryClient(reg, r) == AllClients(reg, 1)

\* message listener: const roomConnections = activeRooms.get(roomId);
\* if (roomConnections) { ... }: the members to iterate, none without an entry.
MessageRoom(reg, r) == IF MapHas(reg, r) THEN reg[r] ELSE << >>

\* Message that drops the members it finds not open from the room while
\* it forwards.
MessagePrunesClosed(ws, fail) ==
    /\ ws \in listeners
    /\ IsOpen(ws)
    /\ LET r == roomId[ws]
           conns == MessageRoom(activeRooms, r)
           out == ForEachForward(conns, ws, OpenConns, fail)
       IN  /\ fail \subseteq (Range(conns) \cap OpenConns) \ {ws}
           /\ activeRooms' =
                 IF MapHas(activeRooms, r)
                 THEN MapSet(activeRooms, r, SelectSeq(conns, IsOpen))
                 ELSE activeRooms
           /\ last' = [NoStep EXCEPT !.kind = "message", !.conn = ws, !.room = r,
                                     !.found = MapHas(activeRooms, r),
                                     !.members = conns,
                                     !.delivered = out.delivered,
                                     !.failed = out.failed, !.threw = out.threw]
    /\ UNCHANGED <<readyState, roomId, listeners, closeCode, closeRuns, evicted>>
    /\ UNCHANGED <<nextSeq, inbox>>

\* The message listener: look the room up by the captured roomId and
\* forward.  fail: the attempted sends that throw.
Forward(ws, fail) ==
    /\ ws \in listeners
    /\ IsOpen(ws)
    /\ LET r == roomId[ws]
           conns == MessageRoom(activeRooms, r)
           out == ForEachForward(conns, ws, OpenConns, fail)
       IN  /\ fail \subseteq (Range(conns) \cap OpenConns) \ {ws}
           /\ last' = [NoStep EXCEPT !.kind = "message", !.conn = ws, !.room = r,
                                     !.found = MapHas(activeRooms, r),
                                     !.members = conns,
                                     !.delivered = out.delivered,
                                     !.failed = out.failed, !.threw = out.threw]
    /\ UNCHANGED <<activeRooms, readyState, roomId, listeners, closeCode,
                   closeRuns, evicted>>

\* ws.on("message"), the payload left out.
Message(ws, fail) ==
    /\ Forward(ws, fail)
    /\ UNCHANGED <<nextSeq, inbox>>

\* otherWs.send(message) that puts the frame ahead of the frames already
\* queued for the recipient.
SendAhead(queue, message) == <<message>> \o queue

\* otherWs.send(message): the frame goes behind the frames already queued
\* for the recipient.
Send(queue, message) == Append(queue, message)

\* ws.on("message") with the payload: the library emits the messages of a
\* connection in the order its peer sent them, so the listener runs for the
\* sender's next message, <<sender, number>>.
RECURSIVE Handled(_)
Handled(k) == IF k = 0 THEN 0 ELSE nextSeq[k] + Handled(k - 1)

MessageNumbered(ws, fail) ==
    /\ Handled(MaxConns) < MaxMsgs
    /\ Forward(ws, fail)
    /\ nextSeq' = [nextSeq EXCEPT ![ws] = @ + 1]
    /\ inbox' = [t \in Conns |->
                    IF t \in last'.delivered
                    THEN Send(inbox[t], <<ws, nextSeq[ws] + 1>>)
                    ELSE inbox[t]]

\* The transport of a connection stops being open (close frame received, socket
\* ended): readyState is CLOSING until the library emits "close".
PeerClosing(ws) ==
    /\ IsOpen(ws)
    /\ readyState' = [readyState EXCEPT ![ws] = "CLOSING"]
    /\ last' = [NoStep EXCEPT !.kind = "closing", !.conn = ws]
    /\ UNCHANGED <<activeRooms, roomId, listeners, closeCode, closeRuns,
                   evicted>>
    /\ UNCHANGED <<nextSeq, inbox>>

\* TransportError with the unbind done in the error listener as well, ahead
\* of the close listener the library still runs.
TransportErrorUnbinds(ws) ==
    /\ ws \in listeners
    /\ readyState[ws] \in {"OPEN", "CLOSING"}
    /\ readyState' = [readyState EXCEPT ![ws] = "CLOSING"]
    /\ activeRooms' = Unbind(activeRooms, roomId[ws], ws)
    /\ closeRuns' = [closeRuns EXCEPT ![ws] = @ + 1]
    /\ last' = [NoStep EXCEPT !.kind = "error", !.conn = ws, !.room = roomId[ws]]
    /\ UNCHANGED <<roomId, listeners, closeCode, evicted>>
    /\ UNCHANGED <<nextSeq, inbox>>

\* ws.on("error"): the listener only logs; the library has taken the transport
\* out of OPEN and emits "close" afterwards.
TransportError(ws) ==
    /\ ws \in listeners
    /\ readyState[ws] \in {"OPEN", "CLOSING"}
    /\ readyState' = [readyState EXCEPT ![ws] = "CLOSING"]
    /\ last' = [NoStep EXCEPT !.kind = "error", !.conn = ws, !.room = roomId[ws]]
    /\ UNCHANGED <<activeRooms, roomId, listeners, closeCode, closeRuns, evicted>>
    /\ UNCHANGED <<nextSeq, inbox>>

\* Close whose listener leaves the registry alone.
CloseWithoutUnbind(ws) ==
    /\ ws \in listeners
    /\ readyState[ws] \in {"OPEN", "CLOSING"}
    /\ readyState' = [readyState EXCEPT ![ws] = "CLOSED"]
    /\ closeRuns' = [closeRuns EXCEPT ![ws] = @ + 1]
    /\ last' = [NoStep EXCEPT !.kind = "close", !.conn = ws, !.room = roomId[ws],
                              !.found = MapHas(activeRooms, roomId[ws]),
                              !.members = RoomConnections(activeRooms, roomId[ws])]
    /\ evicted' = evicted \ {ws}
    /\ UNCHANGED <<activeRooms, roomId, listeners, closeCode>>
    /\ UNCHANGED <<nextSeq, inbox>>

\* ws.on("close"): emitted once by the library, when readyState becomes CLOSED.
Close(ws) ==
    /\ ws \in listeners
    /\ readyState[ws] \in {"OPEN", "CLOSING"}
    /\ readyState' = [readyState EXCEPT ![ws] = "CLOSED"]
    /\ activeRooms' = Unbind(activeRooms, roomId[ws], ws)
    /\ closeRuns' = [closeRuns EXCEPT ![ws] = @ + 1]
    /\ last' = [NoStep EXCEPT !.kind = "close", !.conn = ws, !.room = roomId[ws],
                              !.found = MapHas(activeRooms, roomId[ws]),
                              !.members = RoomConnections(activeRooms, roomId[ws])]
    /\ evicted' = evicted \ {ws}
    /\ UNCHANGED <<roomId, listeners, closeCode>>
    /\ UNCHANGED <<nextSeq, inbox>>

\* The transport of a rejected connection finishes closing: the connection
\* handler returned before registering any listener, so no code runs.
RejectedClosed(ws) ==
    /\ ws \notin listeners
    /\ readyState[ws] = "CLOSING"
    /\ readyState' = [readyState EXCEPT ![ws] = "CLOSED"]
    /\ last' = [NoStep EXCEPT !.kind = "unheard", !.conn = ws]
    /\ UNCHANGED <<activeRooms, roomId, listeners, closeCode, closeRuns,
                   evicted>>
    /\ UNCHANGED <<nextSeq, inbox>>

\* ForEachNotify with sentCount++ ahead of ws.send: a send that throws is
\* counted as notified.
RECURSIVE ForEachNotifyCountsAttempts(_, _, _)
ForEachNotifyCountsAttempts(conns, open, fail) ==
    IF Len(conns) = 0
    THEN [sent |-> {}, failed |-> {}, sentCount |-> 0, closedCount |-> 0]
    ELSE LET ws == Head(conns)
             rest == ForEachNotifyCountsAttempts(Tail(conns), open, fail)
         IN  IF ws \in open
             THEN IF ws \in fail
                  THEN [rest EXCEPT !.failed = @ \cup {ws}, !.sentCount = @ + 1]
                  ELSE [rest EXCEPT !.sent = @ \cup {ws}, !.sentCount = @ + 1]
             ELSE [rest EXCEPT !.closedCount = @ + 1]

\* ForEachNotify without the else branch: a member that is not open is
\* skipped and counted nowhere.
RECURSIVE ForEachNotifySkipsClosed(_, _, _)
ForEachNotifySkipsClosed(conns, open, fail) ==
    IF Len(conns) = 0
    THEN [sent |-> {}, failed |-> {}, sentCount |-> 0, closedCount |-> 0]
    ELSE LET ws == Head(conns)
             rest == ForEachNotifySkipsClosed(Tail(conns), open, fail)
         IN  IF ws \in open
             THEN IF ws \in fail
                  THEN [rest EXCEPT !.failed = @ \cup {ws}]
                  ELSE [rest EXCEPT !.sent = @ \cup {ws}, !.sentCount = @ + 1]
             ELSE rest

\* roomConnections.forEach of the end endpoint: an open member is sent the
\* notice (a send that throws is caught and counted nowhere), any other
\* member is counted as closed.
RECURSIVE ForEachNotify(_, _, _)
ForEachNotify(conns, open, fail) ==
    IF Len(conns) = 0
    THEN [sent |-> {}, failed |-> {}, sentCount |-> 0, closedCount |-> 0]
    ELSE LET ws == Head(conns)
             rest == ForEachNotify(Tail(conns), open, fail)
         IN  IF ws \in open
             THEN IF ws \in fail
                  THEN [rest EXCEPT !.failed = @ \cup {ws}]
                  ELSE [rest EXCEPT !.sent = @ \cup {ws}, !.sentCount = @ + 1]
             ELSE [rest EXCEPT !.closedCount = @ + 1]

\* CleanUpRoom as activeRooms.clear(): every room goes, not only r.
CleanUpRoomClearsAll(reg, r) == EmptyMap

\* CleanUpRoom left out: the entry stays after the notices.
CleanUpRoomSkipped(reg, r) == reg

\* end endpoint, "Clean up room": activeRooms.delete(roomId)
CleanUpRoom(reg, r) == MapDelete(reg, r)

\* EndRoom that also calls ws.close() on every open member it notified.
EndRoomClosesMembers(r, fail) ==
    /\ LET conns == RoomConnections(activeRooms, r)
           out == ForEachNotify(conns, OpenConns, fail)
       IN  /\ fail \subseteq Range(conns) \cap OpenConns
           /\ activeRooms' = CleanUpRoom(activeRooms, r)
           /\ evicted' = evicted \cup Range(conns)
           /\ readyState' = [c \in Conns |->
                                IF c \in out.sent THEN "CLOSING" ELSE readyState[c]]
           /\ last' = [NoStep EXCEPT !.kind = "end", !.room = r,
                                     !.found = MapHas(activeRooms, r),
                                     !.members = conns,
                                     !.delivered = out.sent,
                                     !.failed = out.failed,
                                     !.sentCount = out.sentCount,
                                     !.closedCount = out.closedCount,
                                     !.totalClients = Len(conns)]
    /\ UNCHANGED <<roomId, listeners, closeCode, closeRuns>>
    /\ UNCHANGED <<nextSeq, inbox>>

\* app.post("/api/rooms/:roomId/end"); fail: the attempted sends that throw.
EndRoom(r, fail) ==
    /\ LET conns == RoomConnections(activeRooms, r)
           out == ForEachNotify(conns, OpenConns, fail)
       IN  /\ fail \subseteq Range(conns) \cap OpenConns
           /\ activeRooms' = CleanUpRoom(activeRooms, r)
           /\ evicted' = evicted \cup Range(conns)
           /\ last' = [NoStep EXCEPT !.kind = "end", !.room = r,
                                     !.found = MapHas(activeRooms, r),
                                     !.members = conns,
                                     !.delivered = out.sent,
                                     !.failed = out.failed,
                                     !.sentCount = out.sentCount,
                                     !.closedCount = out.closedCount,
                                     !.totalClients = Len(conns)]
    /\ UNCHANGED <<readyState, roomId, listeners, closeCode, closeRuns>>
    /\ UNCHANGED <<nextSeq, inbox>>

\* app.get("/health")
Health ==
    /\ last' = [NoStep EXCEPT !.kind = "health", !.roomCount = RoomCount(activeRooms)]
    /\ UNCHANGED <<activeRooms, readyState, roomId, listeners, closeCode,
                   closeRuns, evicted>>
    /\ UNCHANGED <<nextSeq, inbox>>

Next ==
    \/ \E ws \in Conns, p \in Pathnames : Accept(ws, p)
    \/ \E ws \in Conns, fail \in SUBSET OpenConns : Message(ws, fail)
    \/ \E ws \in Conns : PeerClosing(ws)
    \/ \E ws \in Conns : TransportError(ws)
    \/ \E ws \in Conns : Close(ws)
    \/ \E ws \in Conns : RejectedClosed(ws)
    \/ \E r \in RoomIds, fail \in SUBSET OpenConns : EndRoom(r, fail)
    \/ Health

Spec == Init /\ [][Next]_vars

\* The relay with numbered messages and the frames sent to each connection.
NextFifo ==
    \/ \E ws \in Conns, p \in Pathnames : Accept(ws, p)
    \/ \E ws \in Conns, fail \in SUBSET OpenConns : MessageNumbered(ws, fail)
    \/ \E ws \in Conns : PeerClosing(ws)
    \/ \E ws \in Conns : TransportError(ws)
    \/ \E ws \in Conns : Close(ws)
    \/ \E ws \in Conns : RejectedClosed(ws)
    \/ \E r \in RoomIds, fail \in SUBSET OpenConns : EndRoom(r, fail)
    \/ Health

SpecFifo == Init /\ [][NextFifo]_vars

\* The event loop runs the close listener of every bound connection whose
\* transport closes, and every bound connection's transport does close.
SpecFairClose == Spec /\ \A ws \in Conns : WF_vars(Close(ws))

----------------------------------------------------------------------------
\* Properties.

Members(r) == Range(RoomConnections(activeRooms, r))

\* C1: the registry never holds a room entry whose member set is empty; an
\* entry exists exactly when the room has at least one member.
NoEmptyRoom ==
    \A r \in RoomIds \cup DOMAIN activeRooms :
        MapHas(activeRooms, r) <=> (Members(r) # {})

\* A close removed the last member of a room while another room is still there.
NoEmptyRoomWitness ==
    /\ last.kind = "close"
    /\ last.members = <<last.conn>>
    /\ ~MapHas(activeRooms, last.room)
    /\ activeRooms # EmptyMap

\* C2: a message sent by a member of room A is delivered to no member of any
\* room B other than A.
Isolation ==
    last.kind = "message" =>
        \A A \in DOMAIN activeRooms, B \in DOMAIN activeRooms :
            (A # B /\ last.conn \in Members(A)) =>
                last.delivered \cap Members(B) = {}

\* A member's message reached another member while a second room has members.
IsolationWitness ==
    /\ last.kind = "message"
    /\ last.conn \in Members(last.room)
    /\ last.delivered # {}
    /\ \E B \in DOMAIN activeRooms : B # last.room /\ Members(B) # {}

\* C3: a message from a member C of room R is delivered to every other
\* member of R whose transport is open, and never to C itself.  Read in the
\* code's favour: a member whose own send throws is not expected to get it.
ExcludeSender ==
    (last.kind = "message" /\ last.conn \in Members(last.room)) =>
        last.delivered =
            (Members(last.room) \cap OpenConns) \ ({last.conn} \cup last.failed)

\* C4: a message sent by a connection that was a member of a room when the
\* room was ended is delivered to no connection, also once the identifier
\* has new members.
EvictedSenderDropped ==
    (last.kind = "message" /\ last.conn \in evicted) => last.delivered = {}

\* C5 as stated: ending a room whose n members are all open sends each of
\* them the notice and answers notifiedClients = n, closedClients = 0,
\* totalClients = n, with the room gone from the registry.
TerminationComplete ==
    (last.kind = "end" /\ Range(last.members) \subseteq OpenConns) =>
        /\ last.delivered = Range(last.members)
        /\ last.sentCount = Len(last.members)
        /\ last.closedCount = 0
        /\ last.totalClients = Len(last.members)
        /\ ~MapHas(activeRooms, last.room)

\* C5 as amended: the notice goes to each of the n members whose send does
\* not throw, notifiedClients is the number of those (n when no send
\* throws), closedClients = 0, totalClients = n, and the room is gone.
TerminationCompleteBarFailedSends ==
    (last.kind = "end" /\ Range(last.members) \subseteq OpenConns) =>
        /\ last.delivered = Range(last.members) \ last.failed
        /\ last.sentCount = Len(last.members) - Cardinality(last.failed)
        /\ last.closedCount = 0
        /\ last.totalClients = Len(last.members)
        /\ ~MapHas(activeRooms, last.room)

\* A room of two open members was ended, one send threw, the other arrived.
TerminationCompleteWitness ==
    /\ last.kind = "end"
    /\ Len(last.members) >= 2
    /\ Range(last.members) \subseteq OpenConns
    /\ last.failed # {}
    /\ last.delivered # {}

\* C6: ending a room identifier that has no entry answers with all three
\* counts 0, sends no notice and leaves the registry as it was.
EndUnknownRoom ==
    [][(last'.kind = "end" /\ ~last'.found) =>
          /\ last'.sentCount = 0
          /\ last'.closedCount = 0
          /\ last'.totalClients = 0
          /\ last'.delivered = {}
          /\ activeRooms' = activeRooms]_vars

\* An identifier without an entry was ended while another room has members.
EndUnknownRoomWitness ==
    /\ last.kind = "end"
    /\ ~last.found
    /\ activeRooms # EmptyMap

\* C7: once the close listener of a bound connection has run, the connection
\* is not in the member set of its room; if it was the last member, the
\* room entry is gone and the count the health endpoint reports is one less.
CloseCleanup ==
    /\ [](\A ws \in listeners :
             readyState[ws] = "CLOSED" => ws \notin Members(roomId[ws]))
    /\ [][last'.kind = "close" =>
             /\ last'.conn \notin Range(RoomConnections(activeRooms', last'.room))
             /\ Range(RoomConnections(activeRooms, last'.room)) = {last'.conn} =>
                   /\ ~MapHas(activeRooms', last'.room)
                   /\ RoomCount(activeRooms') = RoomCount(activeRooms) - 1]_vars

\* The close listener ran for one of two members of a room: the room stays.
CloseCleanupWitness ==
    /\ last.kind = "close"
    /\ last.conn \in Range(last.members)
    /\ Len(last.members) = 2
    /\ MapHas(activeRooms, last.room)
    /\ last.conn \notin Members(last.room)

\* C8: a connection whose path has an empty room identifier is closed with
\* code 1008 at accept, gets no listener, is never a member of any room, and
\* accepting it leaves the registry unchanged.
RejectedNeverBound ==
    /\ [](\A ws \in Conns :
             (readyState[ws] # "CONNECTING" /\ roomId[ws] = EmptyId) =>
                 /\ closeCode[ws] = PolicyViolation
                 /\ readyState[ws] \in {"CLOSING", "CLOSED"}
                 /\ ws \notin listeners
                 /\ \A r \in DOMAIN activeRooms : ws \notin Range(activeRooms[r]))
    /\ [][last'.kind = "reject" => activeRooms' = activeRooms]_vars

\* A connection was rejected while a room has members.
RejectedNeverBoundWitness ==
    /\ last.kind = "reject"
    /\ closeCode[last.conn] = PolicyViolation
    /\ activeRooms # EmptyMap

\* C9: when a send to one recipient fails while a message is forwarded, every
\* other open member of the room still gets the message and the failure does
\* not leave the forwarding step.
FailureContained ==
    (last.kind = "message" /\ last.failed # {}) =>
        /\ ~last.threw
        /\ (Range(last.members) \cap OpenConns) \ ({last.conn} \cup last.failed)
             \subseteq last.delivered

\* C10: for every connection that was bound, the close listener (the unbind)
\* has run once if the connection is closed and not at all before, whether
\* a peer close, a transport error or a room termination came first; the
\* error listener itself leaves the unbind to the close that follows it.
UnbindExactlyOnce ==
    /\ \A ws \in listeners :
          closeRuns[ws] = IF readyState[ws] = "CLOSED" THEN 1 ELSE 0
    /\ \A ws \in Conns \ listeners : closeRuns[ws] = 0
    /\ last.kind = "error" =>
          /\ readyState[last.conn] = "CLOSING"
          /\ ENABLED Close(last.conn)

\* The close listener ran for a connection whose room had been ended.
UnbindExactlyOnceWitness ==
    /\ last.kind = "close"
    /\ ~last.found
    /\ closeRuns[last.conn] = 1
    /\ \E ws \in listeners \ {last.conn} : readyState[ws] = "CLOSED"

\* C12: the close listener of a connection that is no member of the set
\* found under its identifier (its room was ended, and perhaps re-created by
\* new connections since) leaves the whole registry as it was.
CloseAfterEndIsNoop ==
    [][(/\ last'.kind = "close"
        /\ last'.conn \notin Range(RoomConnections(activeRooms, last'.room)))
         => activeRooms' = activeRooms]_vars

\* The close listener of an evicted connection ran while its identifier had
\* an entry again, with other members.
CloseAfterEndIsNoopWitness ==
    /\ last.kind = "close"
    /\ last.found
    /\ last.conn \notin Range(last.members)
    /\ Members(last.room) = Range(last.members)
    /\ Members(last.room) # {}

\* C13: a termination reads the member set and deletes the entry in one
\* step: the connections it takes out of the registry are exactly the
\* totalClients members it reports, the room is absent when it returns, and
\* no other room changes.
TerminationAtomic ==
    [][last'.kind = "end" =>
          /\ ~MapHas(activeRooms', last'.room)
          /\ last'.members = RoomConnections(activeRooms, last'.room)
          /\ last'.totalClients = Cardinality(Range(last'.members))
          /\ activeRooms' = MapDelete(activeRooms, last'.room)
          /\ evicted' \ evicted \subseteq Range(last'.members)]_vars

\* A room of two members was ended while another room has a member.
TerminationAtomicWitness ==
    /\ last.kind = "end"
    /\ last.totalClients = 2
    /\ activeRooms # EmptyMap

\* C14: a termination changes no transport state and runs no close
\* listener: readyState, closeCode and closeRuns are as before.
TerminationLeavesTransports ==
    [][last'.kind = "end" =>
          /\ readyState' = readyState
          /\ closeCode' = closeCode
          /\ closeRuns' = closeRuns]_vars

\* A room with an open member that was sent the notice was ended; the member
\* is still open.
TerminationLeavesTransportsWitness ==
    /\ last.kind = "end"
    /\ last.delivered # {}
    /\ last.delivered \subseteq OpenConns

\* C15: only accept, close and termination change the registry; a message
\* and a health query leave it unchanged; accept or close of a connection
\* bound to R leaves every other room unchanged.
RegistryFrame ==
    [][/\ activeRooms' # activeRooms => last'.kind \in {"accept", "close", "end"}
       /\ last'.kind \in {"message", "health"} => activeRooms' = activeRooms
       /\ last'.kind \in {"accept", "close"} =>
             \A r \in (DOMAIN activeRooms \cup DOMAIN activeRooms') \ {last'.room} :
                 /\ MapHas(activeRooms, r) /\ MapHas(activeRooms', r)
                 /\ activeRooms'[r] = activeRooms[r]]_vars

\* A message was forwarded in a room that has a member that is not open.
RegistryFrameWitness ==
    /\ last.kind = "message"
    /\ last.delivered # {}
    /\ Members(last.room) \ OpenConns # {}

\* C16: a connection goes from CONNECTING to bound (OPEN, then CLOSING) to
\* CLOSED and stays CLOSED; once its close listener has run it is a member
\* of no room and receives neither a forwarded message nor a notice.
ClosedIsTerminal ==
    /\ [](\A ws \in listeners :
             readyState[ws] = "CLOSED" =>
                 /\ \A r \in DOMAIN activeRooms : ws \notin Range(activeRooms[r])
                 /\ last.kind \in {"message", "end"} => ws \notin last.delivered)
    /\ [][\A ws \in Conns :
             \/ readyState'[ws] = readyState[ws]
             \/ <<readyState[ws], readyState'[ws]>> \in
                    {<<"CONNECTING", "OPEN">>, <<"CONNECTING", "CLOSING">>,
                     <<"OPEN", "CLOSING">>, <<"OPEN", "CLOSED">>,
                     <<"CLOSING", "CLOSED">>}]_vars

\* A message was forwarded in the room of a connection that is closed.
ClosedIsTerminalWitness ==
    /\ last.kind = "message"
    /\ last.delivered # {}
    /\ \E ws \in listeners :
          readyState[ws] = "CLOSED" /\ roomId[ws] = last.room

\* C17 as stated: every member at termination time is either sent the
\* notice (open) or counted as closed (not open), so notifiedClients +
\* closedClients = totalClients = the size of the member set.
NotifiedPlusClosedIsTotal ==
    last.kind = "end" =>
        /\ last.totalClients = Len(last.members)
        /\ last.delivered = Range(last.members) \cap OpenConns
        /\ last.closedCount = Cardinality(Range(last.members) \ OpenConns)
        /\ last.sentCount + last.closedCount = last.totalClients

\* C17 as amended: every member is sent the notice (open, send returned),
\* counted as closed (not open), or neither (open, send threw), so
\* notifiedClients + closedClients + the number of throwing sends =
\* totalClients = the size of the member set.
NotifiedClosedFailedIsTotal ==
    last.kind = "end" =>
        /\ last.totalClients = Len(last.members)
        /\ last.delivered = (Range(last.members) \cap OpenConns) \ last.failed
        /\ last.failed \subseteq Range(last.members) \cap OpenConns
        /\ last.sentCount = Cardinality(last.delivered)
        /\ last.closedCount = Cardinality(Range(last.members) \ OpenConns)
        /\ last.sentCount + last.closedCount + Cardinality(last.failed)
             = last.totalClients

\* A room was ended with one member notified, one not open, one whose send
\* threw.
NotifiedClosedFailedIsTotalWitness ==
    /\ last.kind = "end"
    /\ last.sentCount = 1
    /\ last.closedCount = 1
    /\ Cardinality(last.failed) = 1

\* C18: a connection is a member of at most one room, the one whose
\* identifier it gave at accept; member sets of distinct rooms are disjoint.
OneRoomPerConnection ==
    /\ \A r \in DOMAIN activeRooms : \A ws \in Range(activeRooms[r]) :
          ws \in listeners /\ roomId[ws] = r
    /\ \A r1 \in DOMAIN activeRooms, r2 \in DOMAIN activeRooms :
          r1 # r2 => Range(activeRooms[r1]) \cap Range(activeRooms[r2]) = {}

\* Two rooms have members, one of them two.
OneRoomPerConnectionWitness ==
    /\ RoomCount(activeRooms) >= 2
    /\ \E r \in DOMAIN activeRooms : Len(activeRooms[r]) >= 2

\* C19: the member set of R is the set of connections accepted with R whose
\* close listener has not run and whose room was not ended since; the count
\* the health endpoint reports is the number of identifiers with such a
\* connection.
MembersAreLiveAccepted ==
    /\ \A r \in RoomIds \cup DOMAIN activeRooms :
          Members(r) = {ws \in listeners : /\ roomId[ws] = r
                                           /\ closeRuns[ws] = 0
                                           /\ ws \notin evicted}
    /\ last.kind = "health" =>
          last.roomCount =
              Cardinality({r \in RoomIds :
                  \E ws \in listeners : /\ roomId[ws] = r
                                         /\ closeRuns[ws] = 0
                                         /\ ws \notin evicted})

\* The health endpoint reported one room while a closed and an evicted
\* connection exist.
MembersAreLiveAcceptedWitness ==
    /\ last.kind = "health"
    /\ last.roomCount = 1
    /\ evicted # {}
    /\ \E ws \in listeners : closeRuns[ws] = 1

\* C20: when close events are processed fairly, accepts come to an end and
\* the transport of every bound connection closes, the registry is
\* eventually empty (activeRooms = 0 in the health report) and stays empty.
RegistryDrains == <>[](RoomCount(activeRooms) = 0 /\ activeRooms = EmptyMap)

\* Every connection was bound and has closed; the close of the last member
\* emptied the registry.
RegistryDrainsWitness ==
    /\ listeners = Conns
    /\ \A ws \in Conns : readyState[ws] = "CLOSED"
    /\ last.kind = "close"
    /\ last.members = <<last.conn>>
    /\ activeRooms = EmptyMap

====
